---- MODULE Spec2Model ----
(***************************************************************************)
(* UART echo server (uart-echo-freertos.c): app_main, uart_event_task and  *)
(* command_processor_task as interleaved processes, with the UART driver   *)
(* (receive ring buffer and event queue) as their environment.             *)
(* Bytes are their ASCII codes; a text is a sequence of bytes.             *)
(***************************************************************************)
EXTENDS Integers, Sequences, FiniteSets, TLC

VARIABLES
    mpc,               \* app_main: position
    upc,               \* uart_event_task: position
    cpc,               \* command_processor_task: position
    rx_buffer,         \* driver: unread bytes of the receive ring buffer
    uart_event_queue,  \* driver: pending events
    command_queue,     \* relay queue: handles of command entries
    queue_created,     \* command_queue is not NULL
    heap,              \* strdup'ed entries, by handle (1..Len(heap))
    gpio_level,        \* level of GPIO_CONTROL, -1 before it is first driven
    tx,                \* every byte written by uart_write_bytes, in order
    event,             \* uart_event_task: event
    rx_size,           \* uart_event_task: rx_size
    len,               \* uart_event_task: len
    data,              \* uart_event_task: data[0..len-1]
    cmd_copy,          \* uart_event_task: cmd_copy (0 is NULL)
    cmd,               \* command_processor_task: cmd (0 is NULL)
    n_posted,          \* history: events the driver produced so far
    n_delivered,       \* history: bytes the driver put into rx_buffer so far
    lost,              \* history: indices (in delivery order) of flushed bytes
    discarded,         \* history: ids of the events removed by xQueueReset
    read_log,          \* history: one record per uart_read_bytes return
    echo_log,          \* history: one record per uart_write_bytes call
    send_log,          \* history: one record per xQueueSend return
    gpio_log,          \* history: one record per gpio_set_level of a command
    bad_access         \* history: an entry was read, written or freed after free

vars == <<mpc, upc, cpc, rx_buffer, uart_event_queue, command_queue,
          queue_created, heap,
          gpio_level, tx, event, rx_size, len, data, cmd_copy, cmd,
          n_posted, n_delivered, lost, discarded, read_log, echo_log,
          send_log, gpio_log, bad_access>>

uart_locals == <<event, rx_size, len, data, cmd_copy>>
hist_vars == <<n_posted, n_delivered, lost, discarded, read_log, echo_log,
               send_log, gpio_log, bad_access>>

----------------------------------------------------------------------------
(* Program constants *)

BUF_SIZE == 1024
UART_QUEUE_SIZE == 20
CMD_QUEUE_LEN == 5

RX_RING_SIZE == BUF_SIZE * 2

(* Bytes the program names: '\0', '\n', '\r', 'F', 'N', 'O' *)
NUL == 0
LF == 10
CR == 13
ChF == 70
ChN == 78
ChO == 79

STR_ON == <<ChO, ChN>>
STR_OFF == <<ChO, ChF, ChF>>

NoEvent == [type |-> "NONE", size |-> 0, id |-> 0]

----------------------------------------------------------------------------
(* Bounds of the model *)

MaxEvents == 3     \* driver events in a run of Spec
MaxBurst == 6      \* Data events in a run of SpecLoad
MaxTextLen == 4    \* length of the one input of a run of SpecText
MaxStream == 7     \* Data events in a run of SpecBackpressure
MaxMixed == 8      \* driver events in a run of SpecStream
MaxEarly == 2      \* SpecStream: a condition is among the first MaxEarly events
MaxOver == 1       \* SpecOversize: a burst is up to BUF_SIZE + MaxOver bytes
MaxOversized == 2  \* Data events in a run of SpecOversize

----------------------------------------------------------------------------
(* C library and helpers *)

Min(a, b) == IF a < b THEN a ELSE b

Take(s, n) == SubSeq(s, 1, n)
Drop(s, n) == SubSeq(s, n + 1, Len(s))

\* strlen: number of bytes before the first NUL; data[len] is NUL
strlen(s) ==
    LET nuls == { i \in 1..Len(s) : s[i] = NUL }
    IN IF nuls = {} THEN Len(s)
       ELSE (CHOOSE i \in nuls : \A j \in nuls : i <= j) - 1

\* strdup: a copy of the bytes before the first NUL
strdup(s) == Take(s, strlen(s))

\* if (rx_size >= BUF_SIZE) rx_size = BUF_SIZE - 1;
Clamp(size) == IF size >= BUF_SIZE THEN BUF_SIZE - 1 ELSE size

\* a trim of one line end only
TrimOnce(s) ==
    IF Len(s) >= 1 /\ (s[Len(s)] = LF \/ s[Len(s)] = CR)
    THEN Take(s, Len(s) - 1)
    ELSE s

\* while (end >= cmd && (*end == '\n' || *end == '\r')) *end-- = '\0';
RECURSIVE Trim(_)
Trim(s) ==
    IF Len(s) >= 1 /\ (s[Len(s)] = LF \/ s[Len(s)] = CR)
    THEN Trim(Take(s, Len(s) - 1))
    ELSE s

\* a chain that toggles the level on "ON": gpio_set_level(pin, !level)
CommandLevelToggle(s) ==
    IF s = STR_ON THEN 1 - gpio_level
    ELSE IF s = STR_OFF THEN 0
    ELSE -1

\* the chain with the two levels exchanged
CommandLevelInverted(s) ==
    IF s = STR_ON THEN 0
    ELSE IF s = STR_OFF THEN 1
    ELSE -1

\* the chain with strcasecmp in the place of strcmp
CommandLevelAnyCase(s) ==
    LET Upper(b) == IF b >= 97 /\ b <= 122 THEN b - 32 ELSE b
        u == [i \in 1..Len(s) |-> Upper(s[i])]
    IN IF u = STR_ON THEN 1
       ELSE IF u = STR_OFF THEN 0
       ELSE -1

\* the strcmp chain: 1 for "ON", 0 for "OFF", -1 for no gpio_set_level call
CommandLevel(s) ==
    IF s = STR_ON THEN 1
    ELSE IF s = STR_OFF THEN 0
    ELSE -1

\* free(p)
Free(h, p) ==
    [h EXCEPT ![p].live = FALSE, ![p].frees = @ + 1]

----------------------------------------------------------------------------
Init ==
    /\ mpc = "gpio_config"
    /\ upc = "none"
    /\ cpc = "none"
    /\ rx_buffer = <<>>
    /\ uart_event_queue = <<>>
    /\ command_queue = <<>>
    /\ queue_created = FALSE
    /\ heap = <<>>
    /\ gpio_level = -1
    /\ tx = <<>>
    /\ event = NoEvent
    /\ rx_size = 0
    /\ len = 0
    /\ data = <<>>
    /\ cmd_copy = 0
    /\ cmd = 0
    /\ n_posted = 0
    /\ n_delivered = 0
    /\ lost = {}
    /\ discarded = {}
    /\ read_log = <<>>
    /\ echo_log = <<>>
    /\ send_log = <<>>
    /\ gpio_log = <<>>
    /\ bad_access = FALSE

----------------------------------------------------------------------------
(* app_main *)

\* ESP_ERROR_CHECK(gpio_config(&io_conf)): aborts on an error
MainGpioConfig ==
    /\ mpc = "gpio_config"
    /\ mpc' \in {"gpio_set", "aborted"}
    /\ UNCHANGED <<queue_created,
                   upc, cpc, rx_buffer, uart_event_queue, command_queue, heap,
                   gpio_level, tx, uart_locals, cmd, hist_vars>>

\* gpio_set_level(GPIO_CONTROL, 1) at startup
MainGpioSetOn ==
    /\ mpc = "gpio_set"
    /\ gpio_level' = 1
    /\ mpc' = "uart_install"
    /\ UNCHANGED <<queue_created,
                   upc, cpc, rx_buffer, uart_event_queue, command_queue, heap,
                   tx, uart_locals, cmd, hist_vars>>

\* gpio_set_level(GPIO_CONTROL, 0)
MainGpioSet ==
    /\ mpc = "gpio_set"
    /\ gpio_level' = 0
    /\ mpc' = "uart_install"
    /\ UNCHANGED <<queue_created,
                   upc, cpc, rx_buffer, uart_event_queue, command_queue, heap,
                   tx, uart_locals, cmd, hist_vars>>

\* uart_param_config, uart_set_pin, uart_driver_install, each under
\* ESP_ERROR_CHECK; the driver delivers bytes and events once installed
MainUartInstall ==
    /\ mpc = "uart_install"
    /\ mpc' \in {"queue_create", "aborted"}
    /\ UNCHANGED <<queue_created,
                   upc, cpc, rx_buffer, uart_event_queue, command_queue, heap,
                   gpio_level, tx, uart_locals, cmd, hist_vars>>

\* the creation without the NULL check: the tasks are created either way
MainQueueCreateUnchecked ==
    /\ mpc = "queue_create"
    /\ queue_created' \in BOOLEAN
    /\ mpc' = "spawn_uart"
    /\ UNCHANGED <<upc, cpc, rx_buffer, uart_event_queue, command_queue, heap,
                   gpio_level, tx, uart_locals, cmd, hist_vars>>

\* command_queue = xQueueCreate(5, sizeof(char *)); return when it is NULL
MainQueueCreate ==
    /\ mpc = "queue_create"
    /\ queue_created' \in BOOLEAN
    /\ mpc' = IF queue_created' THEN "spawn_uart" ELSE "returned"
    /\ UNCHANGED <<upc, cpc, rx_buffer, uart_event_queue, command_queue, heap,
                   gpio_level, tx, uart_locals, cmd, hist_vars>>

\* xTaskCreate(uart_event_task, ..., 10, NULL)
MainSpawnUart ==
    /\ mpc = "spawn_uart"
    /\ upc' = "start"
    /\ mpc' = "spawn_cmd"
    /\ UNCHANGED <<queue_created,
                   cpc, rx_buffer, uart_event_queue, command_queue, heap,
                   gpio_level, tx, uart_locals, cmd, hist_vars>>

\* xTaskCreate(command_processor_task, ..., 9, NULL)
MainSpawnCmd ==
    /\ mpc = "spawn_cmd"
    /\ cpc' = "recv"
    /\ mpc' = "done"
    /\ UNCHANGED <<queue_created,
                   upc, rx_buffer, uart_event_queue, command_queue, heap,
                   gpio_level, tx, uart_locals, cmd, hist_vars>>

DriverInstalled == mpc \in {"queue_create", "returned", "spawn_uart", "spawn_cmd", "done"}

----------------------------------------------------------------------------
(* The UART driver installed by app_main (environment) *)

\* post an event on the event queue; a full queue loses the event
Post(q, e) == IF Len(q) < UART_QUEUE_SIZE THEN Append(q, e) ELSE q

\* bytes arrive: they enter the ring buffer and a UART_DATA event of their
\* number is posted
DriverData(chunks, max) ==
    /\ DriverInstalled
    /\ n_posted < max
    /\ \E chunk \in chunks :
        /\ Len(rx_buffer) + Len(chunk) <= RX_RING_SIZE
        /\ rx_buffer' = rx_buffer \o chunk
        /\ n_delivered' = n_delivered + Len(chunk)
        /\ uart_event_queue' =
              Post(uart_event_queue,
                   [type |-> "UART_DATA", size |-> Len(chunk), id |-> n_posted + 1])
    /\ n_posted' = n_posted + 1
    /\ UNCHANGED <<queue_created,
                   mpc, upc, cpc, command_queue, heap, gpio_level, tx,
                   uart_locals, cmd, lost, discarded, read_log, echo_log,
                   send_log, gpio_log, bad_access>>

\* the driver reports a condition that carries no bytes
DriverCondition(types, max) ==
    /\ DriverInstalled
    /\ n_posted < max
    /\ \E t \in types :
        uart_event_queue' =
            Post(uart_event_queue, [type |-> t, size |-> 0, id |-> n_posted + 1])
    /\ n_posted' = n_posted + 1
    /\ UNCHANGED <<queue_created,
                   mpc, upc, cpc, rx_buffer, command_queue, heap, gpio_level, tx,
                   uart_locals, cmd, n_delivered, lost, discarded, read_log,
                   echo_log, send_log, gpio_log, bad_access>>

----------------------------------------------------------------------------
(* uart_event_task *)

\* uint8_t *data = malloc(BUF_SIZE); if (!data) { vTaskDelete(NULL); return; }
UartStart ==
    /\ upc = "start"
    /\ upc' \in {"recv", "deleted"}
    /\ UNCHANGED <<queue_created,
                   mpc, cpc, rx_buffer, uart_event_queue, command_queue, heap,
                   gpio_level, tx, uart_locals, cmd, hist_vars>>

\* xQueueReceive(uart_event_queue, &event, portMAX_DELAY), case UART_DATA:
\* rx_size = event.size; break when it is 0; clamp it
UartRecvData ==
    /\ upc = "recv"
    /\ uart_event_queue # <<>>
    /\ Head(uart_event_queue).type = "UART_DATA"
    /\ event' = Head(uart_event_queue)
    /\ uart_event_queue' = Tail(uart_event_queue)
    /\ IF event'.size = 0
       THEN /\ rx_size' = 0
            /\ upc' = "recv"
       ELSE /\ rx_size' = Clamp(event'.size)
            /\ upc' = "read"
    /\ UNCHANGED <<queue_created,
                   mpc, cpc, rx_buffer, command_queue, heap, gpio_level, tx,
                   len, data, cmd_copy, cmd, hist_vars>>

\* the dispatch of a read without the echo
AfterReadSkipEcho(n) == IF n > 0 THEN "dup" ELSE "recv"

\* if (len > 0) { ... uart_write_bytes ... } break;
AfterRead(n) == IF n > 0 THEN "echo" ELSE "recv"

\* len = uart_read_bytes(UART_PORT, data, rx_size, pdMS_TO_TICKS(20)): the
\* bytes in the ring buffer when the call returns, at most rx_size of them;
\* if (len > 0) data[len] = '\0'
UartRead ==
    /\ upc = "read"
    /\ len' = Min(rx_size, Len(rx_buffer))
    /\ data' = IF len' > 0 THEN Take(rx_buffer, len') ELSE data
    /\ rx_buffer' = Drop(rx_buffer, len')
    /\ upc' = AfterRead(len')
    /\ read_log' = Append(read_log,
            [ev |-> event.id, type |-> event.type, size |-> event.size,
             first |-> n_delivered - Len(rx_buffer) + 1,
             len |-> len', bytes |-> Take(rx_buffer, len')])
    /\ UNCHANGED <<queue_created,
                   mpc, cpc, uart_event_queue, command_queue, heap, gpio_level,
                   tx, event, rx_size, cmd_copy, cmd, n_posted, n_delivered, lost,
                   discarded, echo_log, send_log, gpio_log, bad_access>>

\* a write of strlen(data) bytes instead of len
EchoBytesToNul(d, n) == strdup(d)

\* the bytes uart_write_bytes(UART_PORT, (const char *)data, len) writes
EchoBytes(d, n) == Take(d, n)

\* uart_write_bytes(UART_PORT, (const char *)data, len)
UartEcho ==
    /\ upc = "echo"
    /\ tx' = tx \o EchoBytes(data, len)
    /\ echo_log' = Append(echo_log,
            [ev |-> event.id, type |-> event.type,
             first |-> read_log[Len(read_log)].first,
             bytes |-> EchoBytes(data, len)])
    /\ upc' = "dup"
    /\ UNCHANGED <<queue_created,
                   mpc, cpc, rx_buffer, uart_event_queue, command_queue, heap,
                   gpio_level, uart_locals, cmd, n_posted, n_delivered, lost,
                   discarded, read_log, send_log, gpio_log, bad_access>>

\* char *cmd_copy = strdup((char *)data), not NULL
UartDupOk ==
    /\ upc = "dup"
    /\ heap' = Append(heap,
            [text |-> strdup(data), live |-> TRUE, frees |-> 0,
             freed_by |-> "none", ev |-> event.id, raw |-> strdup(data)])
    /\ cmd_copy' = Len(heap) + 1
    /\ upc' = "send"
    /\ UNCHANGED <<queue_created,
                   mpc, cpc, rx_buffer, uart_event_queue, command_queue,
                   gpio_level, tx, event, rx_size, len, data, cmd, hist_vars>>

\* a failed strdup after which the task deletes itself
UartDupFailExits ==
    /\ upc = "dup"
    /\ cmd_copy' = 0
    /\ upc' = "deleted"
    /\ UNCHANGED <<queue_created,
                   mpc, cpc, rx_buffer, uart_event_queue, command_queue, heap,
                   gpio_level, tx, event, rx_size, len, data, cmd, hist_vars>>

\* strdup returns NULL: ESP_LOGE "Failed to duplicate command string"
UartDupFail ==
    /\ upc = "dup"
    /\ cmd_copy' = 0
    /\ upc' = "recv"
    /\ UNCHANGED <<queue_created,
                   mpc, cpc, rx_buffer, uart_event_queue, command_queue, heap,
                   gpio_level, tx, event, rx_size, len, data, cmd, hist_vars>>

\* a send after which cmd_copy is freed whatever xQueueSend returned
UartSendThenFree ==
    /\ upc = "send"
    /\ Len(command_queue) < CMD_QUEUE_LEN
    /\ command_queue' = Append(command_queue, cmd_copy)
    /\ send_log' = Append(send_log, [ev |-> event.id, entry |-> cmd_copy, ok |-> TRUE])
    /\ upc' = "free"
    /\ UNCHANGED <<queue_created,
                   mpc, cpc, rx_buffer, uart_event_queue, heap, gpio_level, tx,
                   uart_locals, cmd, n_posted, n_delivered, lost, discarded,
                   read_log, echo_log, gpio_log, bad_access>>

\* xQueueSendToFront in the place of xQueueSend
UartSendToFront ==
    /\ upc = "send"
    /\ Len(command_queue) < CMD_QUEUE_LEN
    /\ command_queue' = <<cmd_copy>> \o command_queue
    /\ send_log' = Append(send_log, [ev |-> event.id, entry |-> cmd_copy, ok |-> TRUE])
    /\ upc' = "recv"
    /\ UNCHANGED <<queue_created,
                   mpc, cpc, rx_buffer, uart_event_queue, heap, gpio_level, tx,
                   uart_locals, cmd, n_posted, n_delivered, lost, discarded,
                   read_log, echo_log, gpio_log, bad_access>>

\* xQueueSend(command_queue, &cmd_copy, pdMS_TO_TICKS(10)) == pdPASS: there
\* is, or there comes within the timeout, room in the queue
UartSendOk ==
    /\ upc = "send"
    /\ Len(command_queue) < CMD_QUEUE_LEN
    /\ command_queue' = Append(command_queue, cmd_copy)
    /\ send_log' = Append(send_log, [ev |-> event.id, entry |-> cmd_copy, ok |-> TRUE])
    /\ upc' = "recv"
    /\ UNCHANGED <<queue_created,
                   mpc, cpc, rx_buffer, uart_event_queue, heap, gpio_level, tx,
                   uart_locals, cmd, n_posted, n_delivered, lost, discarded,
                   read_log, echo_log, gpio_log, bad_access>>

\* xQueueSend with portMAX_DELAY in the place of the 10 ms: no timeout
UartSendNoTimeout ==
    /\ upc = "send"
    /\ FALSE
    /\ UNCHANGED vars

\* a timed out send that is tried again
UartSendTimeoutRetry ==
    /\ upc = "send"
    /\ Len(command_queue) >= CMD_QUEUE_LEN
    /\ send_log' = Append(send_log, [ev |-> event.id, entry |-> cmd_copy, ok |-> FALSE])
    /\ upc' = "send"
    /\ UNCHANGED <<queue_created,
                   mpc, cpc, rx_buffer, uart_event_queue, command_queue, heap,
                   gpio_level, tx, uart_locals, cmd, n_posted, n_delivered, lost,
                   discarded, read_log, echo_log, gpio_log, bad_access>>

\* xQueueSend(...) != pdPASS: the queue is still full when the timeout ends
UartSendTimeout ==
    /\ upc = "send"
    /\ Len(command_queue) >= CMD_QUEUE_LEN
    /\ send_log' = Append(send_log, [ev |-> event.id, entry |-> cmd_copy, ok |-> FALSE])
    /\ upc' = "free"
    /\ UNCHANGED <<queue_created,
                   mpc, cpc, rx_buffer, uart_event_queue, command_queue, heap,
                   gpio_level, tx, uart_locals, cmd, n_posted, n_delivered, lost,
                   discarded, read_log, echo_log, gpio_log, bad_access>>

\* the failure branch without the free
UartFreeLeak ==
    /\ upc = "free"
    /\ upc' = "recv"
    /\ UNCHANGED <<queue_created,
                   mpc, cpc, rx_buffer, uart_event_queue, command_queue, heap,
                   gpio_level, tx, uart_locals, cmd, hist_vars>>

\* free(cmd_copy); ESP_LOGE "Failed to send command to queue"
UartFree ==
    /\ upc = "free"
    /\ bad_access' = (bad_access \/ ~heap[cmd_copy].live)
    /\ heap' = [Free(heap, cmd_copy) EXCEPT ![cmd_copy].freed_by = "uart"]
    /\ upc' = "recv"
    /\ UNCHANGED <<queue_created,
                   mpc, cpc, rx_buffer, uart_event_queue, command_queue,
                   gpio_level, tx, uart_locals, cmd, n_posted, n_delivered, lost,
                   discarded, read_log, echo_log, send_log, gpio_log>>

\* if (xQueueSend(...) != pdPASS) { free(cmd_copy); ESP_LOGE(...); }
UartSend ==
    IF upc = "free" THEN UartFree
    ELSE IF Len(command_queue) < CMD_QUEUE_LEN THEN UartSendOk
    ELSE UartSendTimeout

\* case UART_FIFO_OVF / case UART_BUFFER_FULL: ESP_LOGW
UartRecvOverflow(t) ==
    /\ upc = "recv"
    /\ uart_event_queue # <<>>
    /\ Head(uart_event_queue).type = t
    /\ event' = Head(uart_event_queue)
    /\ uart_event_queue' = Tail(uart_event_queue)
    /\ upc' = "flush"
    /\ UNCHANGED <<queue_created,
                   mpc, cpc, rx_buffer, command_queue, heap, gpio_level, tx,
                   rx_size, len, data, cmd_copy, cmd, hist_vars>>

UartRecvFifoOvf == UartRecvOverflow("UART_FIFO_OVF")

UartRecvBufferFull == UartRecvOverflow("UART_BUFFER_FULL")

\* an overflow branch whose flush leaves the ring buffer as it is
UartFlushKeepsBytes ==
    /\ upc = "flush"
    /\ lost' = lost \cup ((n_delivered - Len(rx_buffer) + 1) .. n_delivered)
    /\ upc' = "reset"
    /\ UNCHANGED <<queue_created,
                   mpc, cpc, rx_buffer, uart_event_queue, command_queue, heap,
                   gpio_level, tx, uart_locals, cmd, n_posted, n_delivered,
                   discarded, read_log, echo_log, send_log, gpio_log, bad_access>>

\* uart_flush_input(UART_PORT)
UartFlush ==
    /\ upc = "flush"
    /\ rx_buffer' = <<>>
    /\ lost' = lost \cup ((n_delivered - Len(rx_buffer) + 1) .. n_delivered)
    /\ upc' = "reset"
    /\ UNCHANGED <<queue_created,
                   mpc, cpc, uart_event_queue, command_queue, heap, gpio_level,
                   tx, uart_locals, cmd, n_posted, n_delivered, discarded,
                   read_log, echo_log, send_log, gpio_log, bad_access>>

\* xQueueReset(uart_event_queue)
UartReset ==
    /\ upc = "reset"
    /\ uart_event_queue' = <<>>
    /\ discarded' = discarded \cup
            {uart_event_queue[i].id : i \in 1..Len(uart_event_queue)}
    /\ upc' = "recv"
    /\ UNCHANGED <<queue_created,
                   mpc, cpc, rx_buffer, command_queue, heap, gpio_level, tx,
                   uart_locals, cmd, n_posted, n_delivered, lost, read_log,
                   echo_log, send_log, gpio_log, bad_access>>

\* a logged event that is handled as an overflow is: flush, then reset
UartRecvLoggedFlushes(types) ==
    /\ upc = "recv"
    /\ uart_event_queue # <<>>
    /\ Head(uart_event_queue).type \in types
    /\ event' = Head(uart_event_queue)
    /\ uart_event_queue' = Tail(uart_event_queue)
    /\ upc' = "flush"
    /\ UNCHANGED <<queue_created,
                   mpc, cpc, rx_buffer, command_queue, heap, gpio_level, tx,
                   rx_size, len, data, cmd_copy, cmd, hist_vars>>

\* case UART_FRAME_ERR, case UART_PARITY_ERR: ESP_LOGW; default: ESP_LOGI
UartRecvLogged(types) ==
    /\ upc = "recv"
    /\ uart_event_queue # <<>>
    /\ Head(uart_event_queue).type \in types
    /\ event' = Head(uart_event_queue)
    /\ uart_event_queue' = Tail(uart_event_queue)
    /\ upc' = "recv"
    /\ UNCHANGED <<queue_created,
                   mpc, cpc, rx_buffer, command_queue, heap, gpio_level, tx,
                   rx_size, len, data, cmd_copy, cmd, hist_vars>>

UartRecvError == UartRecvLogged({"UART_FRAME_ERR", "UART_PARITY_ERR"})

UartRecvDefault == UartRecvLogged({"UART_BREAK"})

----------------------------------------------------------------------------
(* command_processor_task *)

\* xQueueReceive(command_queue, &cmd, portMAX_DELAY) == pdPASS
CmdRecv ==
    /\ cpc = "recv"
    /\ command_queue # <<>>
    /\ cmd' = Head(command_queue)
    /\ command_queue' = Tail(command_queue)
    /\ cpc' = "trim"
    /\ UNCHANGED <<queue_created,
                   mpc, upc, rx_buffer, uart_event_queue, heap, gpio_level, tx,
                   uart_locals, hist_vars>>

\* char *end = cmd + strlen(cmd) - 1; the trimming loop
CmdTrim ==
    /\ cpc = "trim"
    /\ bad_access' = (bad_access \/ ~heap[cmd].live)
    /\ heap' = [heap EXCEPT ![cmd].text = Trim(@)]
    /\ cpc' = "compare"
    /\ UNCHANGED <<queue_created,
                   mpc, upc, rx_buffer, uart_event_queue, command_queue,
                   gpio_level, tx, uart_locals, cmd, n_posted, n_delivered, lost,
                   discarded, read_log, echo_log, send_log, gpio_log>>

\* the strcmp chain and gpio_set_level(GPIO_CONTROL, 1 or 0)
CmdCompare ==
    /\ cpc = "compare"
    /\ bad_access' = (bad_access \/ ~heap[cmd].live)
    /\ LET lvl == CommandLevel(heap[cmd].text) IN
        IF lvl >= 0
        THEN /\ gpio_level' = lvl
             /\ gpio_log' = Append(gpio_log, [entry |-> cmd, level |-> lvl])
        ELSE UNCHANGED <<gpio_level, gpio_log>>
    /\ cpc' = "free"
    /\ UNCHANGED <<queue_created,
                   mpc, upc, rx_buffer, uart_event_queue, command_queue, heap,
                   tx, uart_locals, cmd, n_posted, n_delivered, lost, discarded,
                   read_log, echo_log, send_log>>

\* free(cmd)
CmdFree ==
    /\ cpc = "free"
    /\ bad_access' = (bad_access \/ ~heap[cmd].live)
    /\ heap' = [Free(heap, cmd) EXCEPT ![cmd].freed_by = "cmd"]
    /\ cpc' = "recv"
    /\ UNCHANGED <<queue_created,
                   mpc, upc, rx_buffer, uart_event_queue, command_queue,
                   gpio_level, tx, uart_locals, cmd, n_posted, n_delivered, lost,
                   discarded, read_log, echo_log, send_log, gpio_log>>

----------------------------------------------------------------------------
(* Specifications *)

MainStep ==
    \/ MainGpioConfig
    \/ MainGpioSet
    \/ MainUartInstall
    \/ MainQueueCreate
    \/ MainSpawnUart
    \/ MainSpawnCmd

\* the steps uart_event_task takes on UART_DATA events
UartDataStep ==
    \/ UartStart
    \/ UartRecvData
    \/ UartRead
    \/ UartEcho
    \/ UartDupOk
    \/ UartDupFail
    \/ UartSend

\* the steps it takes on the other events
UartConditionStep ==
    \/ UartRecvFifoOvf
    \/ UartRecvBufferFull
    \/ UartFlush
    \/ UartReset
    \/ UartRecvError
    \/ UartRecvDefault

CmdStep ==
    \/ CmdRecv
    \/ CmdTrim
    \/ CmdCompare
    \/ CmdFree

\* inputs of Spec: "ON\n", "OFF\r\n", a text with a NUL in it, no bytes
Chunks ==
    { <<ChO, ChN, LF>>, <<ChO, ChF, ChF, CR, LF>>, <<ChO, NUL, ChN>>, <<>> }

Conditions ==
    { "UART_FIFO_OVF", "UART_BUFFER_FULL", "UART_FRAME_ERR", "UART_PARITY_ERR",
      "UART_BREAK" }

Next ==
    \/ MainStep
    \/ DriverData(Chunks, MaxEvents)
    \/ DriverCondition(Conditions, MaxEvents)
    \/ UartDataStep
    \/ UartConditionStep
    \/ CmdStep

Spec == Init /\ [][Next]_vars

\* SpecScheduled: Spec in which app_main and command_processor_task, the
\* tasks of the lower priorities, are not starved
SpecScheduled == Spec /\ WF_vars(MainStep) /\ WF_vars(CmdStep)

\* SpecLoad: a burst of commands, long enough to fill the relay queue
LoadChunks == { <<ChO, ChN, LF>>, <<ChO, ChF, ChF, CR, LF>> }

NextLoad ==
    \/ MainStep
    \/ DriverData(LoadChunks, MaxBurst)
    \/ UartDataStep
    \/ CmdStep

SpecLoad == Init /\ [][NextLoad]_vars

\* SpecBackpressure: a stream of "ON\n" in which uart_event_task, the task
\* of the higher priority, runs whenever it can take a step (a blocked
\* xQueueSend ends with its timeout), while command_processor_task may
\* never run
StreamChunks == { <<ChO, ChN, LF>> }

NextStream ==
    \/ MainStep
    \/ DriverData(StreamChunks, MaxStream)
    \/ UartDataStep
    \/ CmdStep

SpecBackpressure ==
    Init /\ [][NextStream]_vars /\ WF_vars(UartDataStep)

\* uart_event_task, the task of priority 10, never waits: it polls
UartNeverBlocks == upc \in {"none", "deleted"}

\* uart_event_task is not ready to run: it is not created or deleted, or it
\* waits in xQueueReceive(uart_event_queue, .., portMAX_DELAY) on an empty
\* queue, or in xQueueSend(command_queue, .., pdMS_TO_TICKS(10)) on a full one
UartBlocked ==
    \/ upc \in {"none", "deleted"}
    \/ upc = "recv" /\ uart_event_queue = <<>>
    \/ upc = "send" /\ Len(command_queue) >= CMD_QUEUE_LEN

\* SpecPriority: the stream of "ON\n" under the fixed priorities of one core:
\* uart_event_task (10) runs whenever it is ready, command_processor_task
\* (9) and app_main (1) run only while it is blocked
PriorityMainStep == UartBlocked /\ MainStep

PriorityCmdStep == UartBlocked /\ CmdStep

NextPriority ==
    \/ PriorityMainStep
    \/ DriverData(StreamChunks, MaxStream)
    \/ UartDataStep
    \/ PriorityCmdStep

SpecPriority ==
    /\ Init /\ [][NextPriority]_vars
    /\ WF_vars(UartDataStep)
    /\ WF_vars(PriorityCmdStep)
    /\ WF_vars(PriorityMainStep)

\* SpecStream: a stream of "ON\n", long enough to fill the relay queue, with
\* conditions of the driver among its first events
NextMixedStream ==
    \/ MainStep
    \/ DriverData(StreamChunks, MaxMixed)
    \/ DriverCondition(Conditions, MaxEarly)
    \/ UartDataStep
    \/ UartConditionStep
    \/ CmdStep

SpecStream == Init /\ [][NextMixedStream]_vars

\* SpecText: one input, any text of at most MaxTextLen bytes out of
\* '\0' '\n' '\r' ' ' 'F' 'N' 'O' 'n' 'o'
TextBytes == {NUL, LF, CR, 32, ChF, ChN, ChO, 110, 111}

RECURSIVE Texts(_)
Texts(n) ==
    IF n = 0 THEN { <<>> }
    ELSE LET shorter == Texts(n - 1) IN
         shorter \cup { Append(t, b) : t \in {u \in shorter : Len(u) = n - 1},
                                       b \in TextBytes }

NextText ==
    \/ MainStep
    \/ DriverData(Texts(MaxTextLen), 1)
    \/ UartDataStep
    \/ CmdStep

SpecText == Init /\ [][NextText]_vars

\* SpecOversize: bursts of about BUF_SIZE bytes, each posted as one Data
\* event; a burst is a run of 'F', or "ON" and a NUL before the run of 'F'
Oversize(prefix, n) == prefix \o [i \in 1..(n - Len(prefix)) |-> ChF]

OversizeChunks ==
    { Oversize(p, n) : p \in { <<>>, <<ChO, ChN, NUL>> },
                       n \in (BUF_SIZE - 2)..(BUF_SIZE + MaxOver) }

NextOversize ==
    \/ MainStep
    \/ DriverData(OversizeChunks, MaxOversized)
    \/ UartDataStep
    \/ CmdStep

SpecOversize == Init /\ [][NextOversize]_vars

----------------------------------------------------------------------------
(* Notions the properties are stated with *)

RECURSIVE Flatten(_)
Flatten(ss) == IF ss = <<>> THEN <<>> ELSE Head(ss) \o Flatten(Tail(ss))

Range(s) == { s[i] : i \in 1..Len(s) }

\* the reads that returned bytes, as the echo records they call for
ReadsWithBytes ==
    LET HasBytes(r) == r.len > 0
        pos == SelectSeq(read_log, HasBytes)
    IN [i \in 1..Len(pos) |->
            [ev |-> pos[i].ev, type |-> pos[i].type, first |-> pos[i].first,
             bytes |-> pos[i].bytes]]

\* text is word followed by any number of '\r' and '\n'
IsWordWithLineEnds(text, word) ==
    /\ Len(text) >= Len(word)
    /\ Take(text, Len(word)) = word
    /\ \A i \in (Len(word) + 1)..Len(text) : text[i] \in {CR, LF}

\* the level a text asks for: 1, 0, or -1 when it is no command
AskedLevel(text) ==
    IF IsWordWithLineEnds(text, STR_ON) THEN 1
    ELSE IF IsWordWithLineEnds(text, STR_OFF) THEN 0
    ELSE -1

\* the gpio_set_level calls made for entry h
SetsFor(h) == { i \in 1..Len(gpio_log) : gpio_log[i].entry = h }

\* the command stage has finished the strcmp chain for entry h
Compared(h) == heap[h].freed_by = "cmd" \/ (cpc = "free" /\ cmd = h)

----------------------------------------------------------------------------
(* C1: every read that returns n > 0 bytes is followed by one write of     *)
(* exactly those n bytes, in order; nothing is written for a read that     *)
(* returns no bytes or for an event that is not UART_DATA, so the output   *)
(* is the concatenation of the reads.                                      *)
C1_EchoVerbatim ==
    /\ echo_log = IF upc = "echo"
                  THEN Take(ReadsWithBytes, Len(ReadsWithBytes) - 1)
                  ELSE ReadsWithBytes
    /\ tx = Flatten([i \in 1..Len(echo_log) |-> echo_log[i].bytes])
    /\ \A i \in 1..Len(echo_log) : echo_log[i].type = "UART_DATA"

\* a text with a NUL in it has been echoed whole, after a condition event
\* was handled without any write
C1_Witness ==
    /\ upc = "recv"
    /\ event.type = "UART_FRAME_ERR"
    /\ tx = <<ChO, NUL, ChN>>
    /\ Len(echo_log) = 1

----------------------------------------------------------------------------
(* C2: the echo of an input precedes every command side effect of that     *)
(* input. Whenever an entry is offered to the relay queue, is in it, is    *)
(* held by the command stage, has set the output or has been released by   *)
(* the command stage, the bytes read for its event have already been       *)
(* written back, unchanged, and the entry is the text of those bytes.      *)
EchoedBefore(h) ==
    \E i \in 1..Len(echo_log) :
        /\ echo_log[i].ev = heap[h].ev
        /\ \E j \in 1..Len(read_log) :
              /\ read_log[j].ev = heap[h].ev
              /\ read_log[j].bytes = echo_log[i].bytes
        /\ heap[h].raw = strdup(echo_log[i].bytes)

C2_EchoBeforeCommand ==
    \A h \in 1..Len(heap) :
        (\/ \E i \in 1..Len(send_log) : send_log[i].entry = h
         \/ h \in Range(command_queue)
         \/ (cpc # "recv" /\ cmd = h)
         \/ SetsFor(h) # {}
         \/ heap[h].freed_by = "cmd")
        => EchoedBefore(h)

\* "ON\n" was echoed, then set the output, then was released
C2_Witness ==
    /\ Len(heap) >= 1
    /\ heap[1].raw = <<ChO, ChN, LF>>
    /\ heap[1].freed_by = "cmd"
    /\ SetsFor(1) # {}
    /\ EchoedBefore(1)

----------------------------------------------------------------------------
(* C3: an entry whose text is "ON" or "OFF" followed by any number of '\r' *)
(* and '\n', in any combination, sets the output to its level (ON 1, OFF   *)
(* 0) exactly once: when the strcmp chain is through, there is one         *)
(* gpio_set_level call for the entry, with that level.                     *)
C3_CommandSetsLevel ==
    \A h \in 1..Len(heap) :
        (Compared(h) /\ AskedLevel(heap[h].raw) >= 0) =>
            /\ Cardinality(SetsFor(h)) = 1
            /\ \A i \in SetsFor(h) : gpio_log[i].level = AskedLevel(heap[h].raw)
            /\ (cpc = "free" /\ cmd = h) => gpio_level = AskedLevel(heap[h].raw)

\* "ON\r\n" has set the output to 1
C3_Witness ==
    /\ Len(heap) = 1
    /\ heap[1].raw = <<ChO, ChN, CR, LF>>
    /\ cpc = "free"
    /\ gpio_level = 1
    /\ Cardinality(SetsFor(1)) = 1

\* "OFF\n" has set the output to 0
C3_WitnessOff ==
    /\ Len(heap) = 1
    /\ heap[1].raw = <<ChO, ChF, ChF, LF>>
    /\ heap[1].freed_by = "cmd"
    /\ gpio_log = <<[entry |-> 1, level |-> 0]>>

----------------------------------------------------------------------------
(* C4: an entry whose text, less its trailing '\r' and '\n', is not        *)
(* exactly "ON" or "OFF" leaves the output alone: no gpio_set_level call   *)
(* is made for it, and the step that compares it keeps the level.          *)
C4_NoCallForOthers ==
    \A h \in 1..Len(heap) : AskedLevel(heap[h].raw) < 0 => SetsFor(h) = {}

C4_LevelKept ==
    [][(cpc = "compare" /\ cpc' = "free" /\ AskedLevel(heap[cmd].raw) < 0)
          => gpio_level' = gpio_level]_vars

C4_OtherTextsKeepLevel == []C4_NoCallForOthers /\ C4_LevelKept

\* " ON", "ON ", "oN", "\nON" and the empty text were compared and released
C4_Witness ==
    /\ Len(heap) = 1
    /\ heap[1].raw \in { <<32, ChO, ChN>>, <<ChO, ChN, 32>>, <<111, ChN>>,
                         <<LF, ChO, ChN>>, <<>> }
    /\ heap[1].freed_by = "cmd"
    /\ gpio_log = <<>>

----------------------------------------------------------------------------
(* C5: the relay queue never holds more than 5 entries; an xQueueSend      *)
(* that ends while the queue holds 5 entries fails and leaves the queue    *)
(* as it was; the entry of a failed send is never in the queue and, once   *)
(* the task has left the failure branch, has been freed once, by           *)
(* uart_event_task.                                                        *)
C5_FailedReleased ==
    \A i \in 1..Len(send_log) :
        ~send_log[i].ok =>
            LET h == send_log[i].entry IN
            /\ h \notin Range(command_queue)
            /\ ~(cpc # "recv" /\ cmd = h)
            /\ IF i = Len(send_log) /\ upc = "free"
               THEN heap[h].live /\ cmd_copy = h
               ELSE /\ ~heap[h].live
                    /\ heap[h].frees = 1
                    /\ heap[h].freed_by = "uart"

C5_FullQueueFails ==
    [][(upc = "send" /\ upc' # "send" /\ Len(command_queue) = CMD_QUEUE_LEN)
          => /\ upc' = "free"
             /\ command_queue' = command_queue
             /\ Len(send_log') = Len(send_log) + 1
             /\ ~send_log'[Len(send_log')].ok
             /\ send_log'[Len(send_log')].entry = cmd_copy]_vars

C5_RelayQueueBounded ==
    /\ [](Len(command_queue) <= CMD_QUEUE_LEN)
    /\ []C5_FailedReleased
    /\ C5_FullQueueFails

\* the sixth entry was refused and freed while five are in the queue
C5_Witness ==
    /\ Len(command_queue) = CMD_QUEUE_LEN
    /\ upc = "recv"
    /\ Len(send_log) = CMD_QUEUE_LEN + 1
    /\ ~send_log[Len(send_log)].ok
    /\ heap[send_log[Len(send_log)].entry].freed_by = "uart"

----------------------------------------------------------------------------
(* C6: backpressure never stops the echo. Under SpecBackpressure, where    *)
(* the command stage need never dequeue, every xQueueSend ends and the     *)
(* task is back at its xQueueReceive, and every Data event pending while   *)
(* the task is in its loop is echoed.                                      *)
UartInLoop == upc \notin {"none", "start", "deleted"}

PendingEvent(id) ==
    \E i \in 1..Len(uart_event_queue) : uart_event_queue[i].id = id

EchoedEvent(id) == \E i \in 1..Len(echo_log) : echo_log[i].ev = id

C6_EchoUnderBackpressure ==
    /\ (upc = "send") ~> (upc = "recv")
    /\ \A id \in 1..MaxStream :
          (UartInLoop /\ PendingEvent(id)) ~> EchoedEvent(id)

\* the command stage has dequeued nothing, the queue is full, a send has
\* failed and a later event has been echoed
C6_Witness ==
    /\ cpc = "recv" /\ cmd = 0
    /\ Len(command_queue) = CMD_QUEUE_LEN
    /\ \E i \in 1..Len(send_log) :
          /\ ~send_log[i].ok
          /\ \E j \in 1..Len(echo_log) : echo_log[j].ev > send_log[i].ev

----------------------------------------------------------------------------
(* C7: order is kept end to end. uart_event_task takes the events in the   *)
(* order the driver posted them; the command stage takes the entries in    *)
(* the order they were enqueued and applies their effects on the output    *)
(* in that order; when the queue has drained, the output has the level of  *)
(* the last recognised command that was enqueued (0 when there was none).  *)

\* the entries that were enqueued, in the order of their xQueueSend
Sent ==
    LET Ok(r) == r.ok
        oks == SelectSeq(send_log, Ok)
    IN [i \in 1..Len(oks) |-> oks[i].entry]

\* how many of them the command stage has dequeued
NTaken == Len(Sent) - Len(command_queue)

\* how many of them are through the strcmp chain
NCompared == IF cpc \in {"trim", "compare"} THEN NTaken - 1 ELSE NTaken

\* the gpio_set_level calls the first n of them ask for, in their order
EffectsOf(n) ==
    LET Recognised(h) == AskedLevel(heap[h].raw) >= 0
        rs == SelectSeq(Take(Sent, n), Recognised)
    IN [i \in 1..Len(rs) |-> [entry |-> rs[i], level |-> AskedLevel(heap[rs[i]].raw)]]

C7_EventsInOrder ==
    /\ \A i \in 1..Len(uart_event_queue) : uart_event_queue[i].id > event.id
    /\ \A i, j \in 1..Len(uart_event_queue) :
          i < j => uart_event_queue[i].id < uart_event_queue[j].id
    /\ \A i, j \in 1..Len(read_log) : i < j => read_log[i].ev < read_log[j].ev

C7_EntriesInOrder ==
    /\ NTaken >= 0
    /\ command_queue = Drop(Sent, NTaken)
    /\ cpc \in {"trim", "compare", "free"} => (NTaken >= 1 /\ cmd = Sent[NTaken])
    /\ \A i \in 1..NTaken :
          heap[Sent[i]].freed_by = "cmd" \/ (i = NTaken /\ cpc # "recv")
    /\ gpio_log = EffectsOf(NCompared)

C7_DrainedLevel ==
    (command_queue = <<>> /\ cpc = "recv") =>
        gpio_level = IF EffectsOf(Len(Sent)) = <<>> THEN 0
                     ELSE EffectsOf(Len(Sent))[Len(EffectsOf(Len(Sent)))].level

C7_OrderPreserved ==
    /\ C7_EventsInOrder
    /\ C7_EntriesInOrder
    /\ C7_DrainedLevel

\* "ON\n", a text that is no command and "OFF\r\n" were enqueued in this
\* order; the queue has drained and the output is 0
C7_Witness ==
    /\ command_queue = <<>> /\ cpc = "recv"
    /\ Len(Sent) = 3
    /\ AskedLevel(heap[Sent[1]].raw) = 1
    /\ AskedLevel(heap[Sent[2]].raw) = -1
    /\ AskedLevel(heap[Sent[3]].raw) = 0
    /\ gpio_log = <<[entry |-> Sent[1], level |-> 1], [entry |-> Sent[3], level |-> 0]>>
    /\ gpio_level = 0

----------------------------------------------------------------------------
(* C8: every entry has exactly one owner while it is allocated and is      *)
(* freed exactly once: by uart_event_task if and only if its xQueueSend    *)
(* failed, otherwise by the command stage after the strcmp chain; no entry *)
(* is freed twice or used after its free, and an entry that is not freed   *)
(* is in the relay queue or held by one task.                              *)

\* who holds the handle h: the producer between strdup and the end of its
\* send or failure branch, the queue, the consumer between its receive and
\* its free
HeldByUart(h) == upc \in {"send", "free"} /\ cmd_copy = h
HeldByCmd(h) == cpc \in {"trim", "compare", "free"} /\ cmd = h
TimesQueued(h) == Cardinality({ i \in 1..Len(command_queue) : command_queue[i] = h })

Owners(h) ==
    (IF HeldByUart(h) THEN 1 ELSE 0) + TimesQueued(h) + (IF HeldByCmd(h) THEN 1 ELSE 0)

SendFailed(h) == \E i \in 1..Len(send_log) : send_log[i].entry = h /\ ~send_log[i].ok
SendPassed(h) == \E i \in 1..Len(send_log) : send_log[i].entry = h /\ send_log[i].ok

----------------------------------------------------------------------------
(* C9: handling UART_FIFO_OVF or UART_BUFFER_FULL empties the ring buffer  *)
(* and then the event queue, and leaves the relay queue, the entries, the  *)
(* output and the echo alone; a flushed byte is never read, so never       *)
(* echoed or forwarded, and an event removed by the reset is never         *)
(* handled, so no read, echo, entry or send bears its id.                  *)
BytesOf(r) == r.first .. (r.first + Len(r.bytes) - 1)

C9_LostNeverUsed ==
    /\ \A i \in 1..Len(read_log) :
          /\ BytesOf(read_log[i]) \cap lost = {}
          /\ read_log[i].ev \notin discarded
    /\ \A i \in 1..Len(echo_log) :
          /\ BytesOf(echo_log[i]) \cap lost = {}
          /\ echo_log[i].ev \notin discarded
    /\ \A i \in 1..Len(send_log) : send_log[i].ev \notin discarded
    /\ \A h \in 1..Len(heap) : heap[h].ev \notin discarded
    /\ event.id \notin discarded

C9_FlushThenReset ==
    [][/\ (upc = "flush" /\ upc' # "flush") =>
             /\ upc' = "reset"
             /\ rx_buffer' = <<>>
             /\ UNCHANGED <<uart_event_queue, command_queue, heap, gpio_level, tx>>
       /\ (upc = "reset" /\ upc' # "reset") =>
             /\ upc' = "recv"
             /\ uart_event_queue' = <<>>
             /\ UNCHANGED <<rx_buffer, command_queue, heap, gpio_level, tx>>]_vars

C9_OverflowDropsLostData == []C9_LostNeverUsed /\ C9_FlushThenReset

\* "ON\n" is in the relay queue; then an overflow was handled that flushed
\* the bytes of a later input and removed its Data event
C9_Witness ==
    /\ upc = "recv"
    /\ event.type \in {"UART_FIFO_OVF", "UART_BUFFER_FULL"}
    /\ lost # {}
    /\ discarded # {}
    /\ rx_buffer = <<>> /\ uart_event_queue = <<>>
    /\ command_queue = <<1>>
    /\ heap[1].live /\ heap[1].text = <<ChO, ChN, LF>>
    /\ tx = <<ChO, ChN, LF>>

----------------------------------------------------------------------------
(* C10, as stated: whenever "ON\n" is received, it is echoed and the       *)
(* output becomes 1 as a result of it. Put on the states in which nothing  *)
(* is pending any more: every read that returned "ON\n" has been echoed    *)
(* and has led to a gpio_set_level(GPIO_CONTROL, 1) call.                  *)
TEXT_ON_LF == <<ChO, ChN, LF>>

NothingPending ==
    /\ upc = "recv" /\ uart_event_queue = <<>>
    /\ cpc = "recv" /\ command_queue = <<>>

EchoedAs(ev, bytes) ==
    \E i \in 1..Len(echo_log) : echo_log[i].ev = ev /\ echo_log[i].bytes = bytes

TurnedOnBy(ev) ==
    \E k \in 1..Len(gpio_log) :
        gpio_log[k].level = 1 /\ heap[gpio_log[k].entry].ev = ev

C10_EveryOnTurnsOn ==
    NothingPending =>
        \A i \in 1..Len(read_log) :
            read_log[i].bytes = TEXT_ON_LF =>
                /\ EchoedAs(read_log[i].ev, TEXT_ON_LF)
                /\ TurnedOnBy(read_log[i].ev)

(* C10, amended: whenever a read returns "ON\n", these bytes are echoed;   *)
(* if the strdup and the xQueueSend of its entry succeed and neither       *)
(* app_main nor the command stage is starved, the command stage comes to   *)
(* set the output to 1 for that entry.                                     *)
C10_OnEchoed ==
    \A i \in 1..Len(read_log) :
        (read_log[i].bytes = TEXT_ON_LF /\ ~(i = Len(read_log) /\ upc = "echo"))
            => EchoedAs(read_log[i].ev, TEXT_ON_LF)

C10_OnTurnsOnIfEnqueued ==
    /\ []C10_OnEchoed
    /\ \A h \in 1..MaxEvents :
          (h \in Range(command_queue) /\ heap[h].raw = TEXT_ON_LF)
              ~> (/\ cpc = "free" /\ cmd = h
                  /\ gpio_level = 1
                  /\ \E k \in SetsFor(h) : gpio_log[k].level = 1)

\* "ON\n" was echoed and its entry has just set the output to 1
C10_Witness ==
    /\ cpc = "free"
    /\ heap[cmd].raw = TEXT_ON_LF
    /\ SendPassed(cmd)
    /\ EchoedAs(heap[cmd].ev, TEXT_ON_LF)
    /\ gpio_level = 1
    /\ gpio_log # <<>> /\ gpio_log[Len(gpio_log)] = [entry |-> cmd, level |-> 1]

----------------------------------------------------------------------------
(* C11: command processing is idempotent. The level after the strcmp chain *)
(* is a function of the entry's text alone: 1 after "ON", 0 after "OFF",   *)
(* whatever the level was; so after two "ON" entries in a row the output   *)
(* is 1, and after two "OFF" entries in a row it is 0.                     *)
C11_LevelFromTextAlone ==
    [][(cpc = "compare" /\ cpc' = "free" /\ AskedLevel(heap[cmd].raw) >= 0)
          => gpio_level' = AskedLevel(heap[cmd].raw)]_vars

C11_LastCommandRules ==
    (gpio_log # <<>> /\ cpc # "none") =>
        /\ gpio_level = gpio_log[Len(gpio_log)].level
        /\ gpio_level = AskedLevel(heap[gpio_log[Len(gpio_log)].entry].raw)

C11_Idempotent == []C11_LastCommandRules /\ C11_LevelFromTextAlone

\* two "ON\n" entries in a row were processed and the output is 1
C11_Witness ==
    /\ Len(gpio_log) = 2
    /\ gpio_log[1].level = 1 /\ gpio_log[2].level = 1
    /\ gpio_log[1].entry # gpio_log[2].entry
    /\ heap[gpio_log[2].entry].raw = <<ChO, ChN, LF>>
    /\ cpc = "free"
    /\ gpio_level = 1

----------------------------------------------------------------------------
(* C12: the output is 0 when the tasks start and stays 0 until the command *)
(* stage processes an "ON" entry; after startup only the strcmp chain of   *)
(* the command stage changes it: no step of uart_event_task does, whatever *)
(* the event and whether the send passes or fails.                         *)
TasksStarted == upc # "none" \/ cpc # "none"

C12_OffUntilOn ==
    TasksStarted =>
        /\ gpio_level \in {0, 1}
        /\ (\A k \in 1..Len(gpio_log) : gpio_log[k].level # 1) => gpio_level = 0

C12_OnlyCommandStageWrites ==
    [][/\ (gpio_level' # gpio_level) =>
             \/ (mpc = "gpio_set" /\ mpc' # mpc)
             \/ (cpc = "compare" /\ cpc' = "free")
       /\ (upc' # upc \/ uart_locals' # uart_locals) => gpio_level' = gpio_level]_vars

C12_OutputOwnedByCommands == []C12_OffUntilOn /\ C12_OnlyCommandStageWrites

\* the output is still 0 after uart_event_task has handled an overflow, an
\* error event, Data events and a failed send, and "ON" entries are queued
C12_Witness ==
    /\ gpio_level = 0
    /\ gpio_log = <<>>
    /\ lost # {}
    /\ Len(command_queue) = CMD_QUEUE_LEN
    /\ \E i \in 1..Len(send_log) : ~send_log[i].ok
    /\ upc = "recv"

----------------------------------------------------------------------------
(* C13: the tasks run only with an existing relay queue. When xQueueCreate *)
(* returns NULL app_main returns: no task is ever created, nothing is      *)
(* echoed and the output stays at the 0 app_main gave it. A task is        *)
(* created, and takes its steps, only after the queue was created and the  *)
(* output set to 0, also when uart_event_task runs before                  *)
(* command_processor_task exists.                                          *)
C13_AbortedStartup ==
    (mpc = "returned" \/ ~queue_created) =>
        /\ upc = "none" /\ cpc = "none"
        /\ tx = <<>> /\ read_log = <<>> /\ send_log = <<>>
        /\ gpio_log = <<>>
        /\ command_queue = <<>>
        /\ mpc = "returned" => (~queue_created /\ gpio_level = 0)

C13_TaskCreatedAfterSetup ==
    [][/\ (upc = "none" /\ upc' # "none") => (queue_created /\ gpio_level = 0)
       /\ (cpc = "none" /\ cpc' # "none") =>
              (queue_created /\ upc # "none" /\ gpio_log = <<>> /\ gpio_level = 0)
       /\ (upc' # upc \/ cpc' # cpc) => (queue_created /\ queue_created')
       /\ queue_created => queue_created']_vars

C13_TasksNeedRelayQueue == []C13_AbortedStartup /\ C13_TaskCreatedAfterSetup

\* uart_event_task has read and echoed an event while
\* command_processor_task is not created yet
C13_Witness ==
    /\ mpc = "spawn_cmd"
    /\ cpc = "none"
    /\ queue_created
    /\ upc \notin {"none", "start", "deleted"}
    /\ tx # <<>>
    /\ gpio_level = 0

\* the creation failed, app_main returned, and the driver's events stay
\* in the event queue
C13_WitnessAborted ==
    /\ mpc = "returned"
    /\ ~queue_created
    /\ uart_event_queue # <<>>
    /\ rx_buffer # <<>>
    /\ upc = "none"

----------------------------------------------------------------------------
(* C14: when the malloc of the receive buffer fails uart_event_task        *)
(* deletes itself at once: it has taken no event, read, echoed and queued  *)
(* nothing, and every event the driver posted is still in the event queue. *)
(* The task ends in no other way, and command_processor_task, once         *)
(* created, never ends.                                                    *)
C14_NothingDoneWhenDeleted ==
    upc = "deleted" =>
        /\ event = NoEvent
        /\ read_log = <<>> /\ echo_log = <<>> /\ send_log = <<>>
        /\ tx = <<>> /\ heap = <<>> /\ command_queue = <<>>
        /\ lost = {} /\ discarded = {}
        /\ Len(uart_event_queue) = n_posted
        /\ Len(rx_buffer) = n_delivered

C14_OnlyExit ==
    [][/\ (upc' = "deleted" /\ upc # "deleted") => upc = "start"
       /\ upc = "deleted" => upc' = "deleted"
       /\ upc \notin {"none", "start", "deleted"} => upc' \notin {"none", "start", "deleted"}
       /\ cpc # "none" => cpc' \in {"recv", "trim", "compare", "free"}]_vars

C14_ExitOnlyOnBufferAllocation == []C14_NothingDoneWhenDeleted /\ C14_OnlyExit

\* the task deleted itself while events wait in the event queue and
\* command_processor_task blocks on the empty relay queue
C14_Witness ==
    /\ upc = "deleted"
    /\ cpc = "recv"
    /\ Len(uart_event_queue) = MaxEvents
    /\ rx_buffer # <<>>
    /\ tx = <<>>

----------------------------------------------------------------------------
(* C15: a failed strdup or a timed out xQueueSend drops the one event and  *)
(* is not tried again. The strdup is reached only from the echo, and each  *)
(* event has at most one echo, one duplicate and one xQueueSend; when the  *)
(* strdup fails or the send times out the echo of the event is written,    *)
(* the relay queue stays as it is, no entry of that event is or comes on   *)
(* the queue, and the task is back at xQueueReceive for the next event.    *)
EchoesOf(id) == { i \in 1..Len(echo_log) : echo_log[i].ev = id }
CopiesOf(id) == { h \in 1..Len(heap) : heap[h].ev = id }
SendsOf(id) == { i \in 1..Len(send_log) : send_log[i].ev = id }

C15_OneAttemptPerEvent ==
    /\ \A id \in 1..n_posted :
          /\ Cardinality(EchoesOf(id)) <= 1
          /\ Cardinality(CopiesOf(id)) <= 1
          /\ Cardinality(SendsOf(id)) <= 1
          /\ Cardinality(SendsOf(id)) <= Cardinality(CopiesOf(id))
          /\ Cardinality(CopiesOf(id)) <= Cardinality(EchoesOf(id))
    /\ \A i \in 1..Len(send_log) :
          ~send_log[i].ok =>
              /\ send_log[i].entry \notin Range(command_queue)
              /\ ~HeldByCmd(send_log[i].entry)
              /\ \A k \in 1..Len(gpio_log) : gpio_log[k].entry # send_log[i].entry
              /\ EchoedEvent(send_log[i].ev)
    /\ \A k \in 1..Len(command_queue) :
          \E i \in 1..Len(send_log) :
              /\ send_log[i].ok
              /\ send_log[i].entry = command_queue[k]
              /\ send_log[i].ev = heap[command_queue[k]].ev

C15_FailureDropsOneEvent ==
    [][/\ (upc' = "dup" /\ upc # "dup") => upc = "echo"
       /\ (upc' = "send" /\ upc # "send") => upc = "dup"
       /\ (upc = "dup" /\ upc' # "dup") =>
              /\ EchoedEvent(event.id)
              /\ CopiesOf(event.id) = {}
              /\ tx' = tx /\ command_queue' = command_queue
              /\ upc' \in {"send", "recv"}
              /\ upc' = "recv" => heap' = heap
       /\ (upc = "send" /\ upc' # "send") =>
              /\ EchoedEvent(event.id)
              /\ SendsOf(event.id) = {}
              /\ tx' = tx
              /\ upc' \in {"free", "recv"}
              /\ upc' = "free" <=> command_queue' = command_queue
              /\ upc' = "free" <=> Len(command_queue) >= CMD_QUEUE_LEN
       /\ (upc = "free" /\ upc' # "free") =>
              /\ upc' = "recv"
              /\ tx' = tx /\ command_queue' = command_queue
              /\ ~heap'[cmd_copy].live]_vars

C15_NoRetry == []C15_OneAttemptPerEvent /\ C15_FailureDropsOneEvent

\* the send of one event timed out, its entry was freed, and the task has
\* read and echoed a later event; the relay queue is still full
C15_Witness ==
    /\ Len(command_queue) = CMD_QUEUE_LEN
    /\ \E i \in 1..Len(send_log) :
          /\ ~send_log[i].ok
          /\ ~heap[send_log[i].entry].live
          /\ EchoedEvent(send_log[i].ev)
          /\ \E j \in 1..Len(echo_log) : echo_log[j].ev > send_log[i].ev

\* the strdup of one event failed and the task has echoed a later event
C15_WitnessDup ==
    \E i, j \in 1..Len(echo_log) :
        /\ i < j
        /\ CopiesOf(echo_log[i].ev) = {}
        /\ echo_log[j].ev > echo_log[i].ev

----------------------------------------------------------------------------
(* C16: an event that is neither UART_DATA nor UART_FIFO_OVF nor           *)
(* UART_BUFFER_FULL (UART_FRAME_ERR, UART_PARITY_ERR, any other) is only   *)
(* logged: the step that takes it leaves the ring buffer, the events       *)
(* behind it in the event queue, the echo output, the relay queue and the  *)
(* output level as they are, and the task is back at xQueueReceive.        *)
ActedOnTypes == { "UART_DATA", "UART_FIFO_OVF", "UART_BUFFER_FULL" }

C16_LoggedEventsChangeNothing ==
    [][(/\ upc = "recv"
        /\ event' # event
        /\ Head(uart_event_queue).type \notin ActedOnTypes)
          => /\ event' = Head(uart_event_queue)
             /\ uart_event_queue' = Tail(uart_event_queue)
             /\ rx_buffer' = rx_buffer
             /\ tx' = tx /\ echo_log' = echo_log
             /\ command_queue' = command_queue /\ heap' = heap
             /\ gpio_level' = gpio_level /\ gpio_log' = gpio_log
             /\ lost' = lost /\ discarded' = discarded
             /\ upc' = "recv"]_vars

C16_NoLoggedEventFlushes ==
    upc \in {"flush", "reset"} => event.type \in {"UART_FIFO_OVF", "UART_BUFFER_FULL"}

C16_NoActionOnOtherEvents == []C16_NoLoggedEventFlushes /\ C16_LoggedEventsChangeNothing

\* a frame or parity error or a break was just taken after an "ON" went
\* through; unread bytes and their Data event are still there
C16_Witness ==
    /\ upc = "recv"
    /\ event # NoEvent
    /\ event.type \notin ActedOnTypes
    /\ rx_buffer # <<>>
    /\ uart_event_queue # <<>>
    /\ Head(uart_event_queue).type = "UART_DATA"
    /\ tx # <<>>
    /\ gpio_level = 1

----------------------------------------------------------------------------
(* C18: the entry put on the relay queue for a Data event holds, before    *)
(* the trim, the very bytes that were read and written back as echo.       *)
(* Refuted: uart_write_bytes writes len bytes, strdup copies the bytes     *)
(* before the first NUL only.                                              *)
C18_EntryIsEchoedText ==
    \A h \in 1..Len(heap) : EchoedAs(heap[h].ev, heap[h].raw)

\* what does hold: the entry is the echo up to its first NUL
C18_EntryIsEchoToFirstNul ==
    \A h \in 1..Len(heap) :
        \E i \in 1..Len(echo_log) :
            /\ echo_log[i].ev = heap[h].ev
            /\ heap[h].raw = strdup(echo_log[i].bytes)

\* 'O' NUL 'N' was echoed as three bytes and its entry is "O"
C18_Witness ==
    \E h \in 1..Len(heap) :
        /\ heap[h].raw = <<ChO>>
        /\ EchoedAs(heap[h].ev, <<ChO, NUL, ChN>>)
        /\ h \in Range(command_queue)

----------------------------------------------------------------------------
(* C17: for every Data(size) event, also with size >= BUF_SIZE, at most    *)
(* BUF_SIZE - 1 bytes are asked for and read, so the NUL written after     *)
(* them is inside the BUF_SIZE bytes of data; a burst larger than the      *)
(* buffer is echoed cut to BUF_SIZE - 1 bytes and goes on the relay queue  *)
(* as one entry that sets no level. Refuted in its last part: the entry    *)
(* is the strdup of the bytes read (see C18), and it is "ON" when the      *)
(* burst starts with "ON" and a NUL.                                       *)

\* the part on the clamp, which holds
C17_ReadWithinBuffer ==
    /\ rx_size <= BUF_SIZE - 1
    /\ len < BUF_SIZE
    /\ Len(data) < BUF_SIZE
    /\ upc \in {"read", "echo", "dup", "send", "free"} => rx_size = Clamp(event.size)
    /\ \A i \in 1..Len(read_log) :
          /\ read_log[i].len <= BUF_SIZE - 1
          /\ read_log[i].len <= read_log[i].size
    /\ \A i \in 1..Len(echo_log) : Len(echo_log[i].bytes) <= BUF_SIZE - 1
    /\ \A id \in 1..n_posted : Cardinality(CopiesOf(id)) <= 1

\* the reads of the events of BUF_SIZE bytes or more
OversizedReads == { i \in 1..Len(read_log) : read_log[i].size >= BUF_SIZE }

C17_OversizedEchoedTruncated ==
    \A i \in OversizedReads :
        /\ read_log[i].len = BUF_SIZE - 1
        /\ (i < Len(read_log) \/ upc # "echo") =>
               EchoedAs(read_log[i].ev, read_log[i].bytes)

C17_OversizedUnrecognized ==
    \A i \in OversizedReads :
        \A h \in CopiesOf(read_log[i].ev) : SetsFor(h) = {}

C17_ClampedBurst ==
    /\ C17_ReadWithinBuffer
    /\ C17_OversizedEchoedTruncated
    /\ C17_OversizedUnrecognized

\* a burst of more than BUF_SIZE bytes was read and echoed as BUF_SIZE - 1
\* bytes, and its one entry has set the output to 1
C17_Witness ==
    \E i \in OversizedReads :
        /\ read_log[i].size > BUF_SIZE
        /\ read_log[i].len = BUF_SIZE - 1
        /\ EchoedAs(read_log[i].ev, read_log[i].bytes)
        /\ \E h \in CopiesOf(read_log[i].ev) :
              /\ heap[h].raw = STR_ON
              /\ SetsFor(h) # {}
              /\ gpio_level = 1

----------------------------------------------------------------------------
(* C19: once an UART_FIFO_OVF or UART_BUFFER_FULL event is handled         *)
(* (uart_flush_input, then xQueueReset) the event queue and the ring       *)
(* buffer agree again: the unread bytes are those of the pending UART_DATA *)
(* events, whatever the driver did meanwhile. Refuted: bytes that arrive   *)
(* between the two calls stay in the ring buffer while xQueueReset throws  *)
(* their UART_DATA event away.                                             *)
RECURSIVE PendingDataBytes(_)
PendingDataBytes(q) ==
    IF q = <<>> THEN 0
    ELSE (IF Head(q).type = "UART_DATA" THEN Head(q).size ELSE 0)
         + PendingDataBytes(Tail(q))

\* the task is back at xQueueReceive after the overflow branch
OverflowHandled ==
    /\ upc = "recv"
    /\ event.type \in {"UART_FIFO_OVF", "UART_BUFFER_FULL"}

C19_Resynchronised ==
    OverflowHandled => Len(rx_buffer) = PendingDataBytes(uart_event_queue)

\* what does hold: the two agree when no event was posted between the
\* flush and the reset
C19_ResynchronisedWhenQuiet ==
    [][(upc = "flush" /\ upc' = "reset") =>
            (rx_buffer' = <<>> /\ uart_event_queue' = uart_event_queue)]_vars
    /\ [][(upc = "reset" /\ upc' = "recv") =>
            (/\ uart_event_queue' = <<>>
             /\ rx_buffer' = rx_buffer
             /\ Len(rx_buffer) <= PendingDataBytes(uart_event_queue))]_vars

\* "ON\n" came in between the flush and the reset: it is in the ring
\* buffer, its event is thrown away and no event is pending
C19_Witness ==
    /\ OverflowHandled
    /\ uart_event_queue = <<>>
    /\ rx_buffer = <<ChO, ChN, LF>>
    /\ discarded # {}
    /\ ((n_delivered - 2)..n_delivered) \cap lost = {}

----------------------------------------------------------------------------
(* C20: under the fixed priorities (uart_event_task 10 above               *)
(* command_processor_task 9), with uart_event_task blocking when it waits  *)
(* for an event or for room in the relay queue, every entry that is sent   *)
(* on the relay queue is in the end taken, compared and freed by           *)
(* command_processor_task: no entry stays on the queue, also when the      *)
(* events come faster than the queue takes them.                           *)
C20_CmdRunsWhileUartWaits ==
    (/\ cpc # "none"
     /\ \/ upc = "send" /\ Len(command_queue) >= CMD_QUEUE_LEN
        \/ upc = "recv" /\ uart_event_queue = <<>> /\ command_queue # <<>>)
        => ENABLED PriorityCmdStep

C20_EveryEntryFreed ==
    \A h \in 1..MaxStream :
        (h \in Range(command_queue)) ~>
            (/\ h \in 1..Len(heap)
             /\ heap[h].freed_by = "cmd"
             /\ h \notin Range(command_queue))

====
